---- MODULE Spec2Model ----
(***************************************************************************)
(* Credential cipher of halocall-backend: getEncryptionKey, encrypt,       *)
(* decrypt and verifyEncryptionConfig (src/src/index.ts, lines 103-221).   *)
(*                                                                         *)
(* Strings are sequences of UTF-16 code units, buffers are sequences of    *)
(* bytes (0..255).  UTF-8 and base64 are computed as Buffer computes them. *)
(* The primitives of node:crypto are modelled at byte level by small       *)
(* stand-ins that keep the properties the real ones have up to negligible  *)
(* probability: scryptSync is deterministic and gives different keys for   *)
(* different (secret, salt), the GCM keystream is invertible, the GCM tag  *)
(* depends on key, nonce and every ciphertext byte, and randomBytes never  *)
(* returns the same buffer twice.                                          *)
(*                                                                         *)
(* The three exported functions are synchronous: a call is one step, and   *)
(* the caller takes its result (Return) before the next call starts        *)
(* (Spec, SpecFault).  SpecSteps takes encrypt and decrypt statement by    *)
(* statement, with the statements of several calls interleaved.            *)
(*                                                                         *)
(* SpecWebhook is the handler of POST /clerk                               *)
(* (src/src/functions/webhooks/api.ts, lines 15-132), which runs from one  *)
(* await to the next while other requests are handled in between.          *)
(***************************************************************************)
EXTENDS Integers, Sequences, FiniteSets, TLC

\* ------------------------------------------------------------ constants
ALGORITHM == "aes-256-gcm"
KEY_LENGTH == 32
IV_LENGTH == 16
AUTH_TAG_LENGTH == 16
SALT_LENGTH == 32

\* ------------------------------------------------------------ bounds
\* The random source has produced 0..MaxSeed buffers before the first call.
MaxSeed == 1
\* The calls of one run draw at most the first MaxRng buffers of the source.
MaxRng == 4
\* Date.now() ranges over 0..MaxNow.
MaxNow == 1
\* A tampered byte is replaced by (old + d) % 256 for d in 1..MaxDelta.
MaxDelta == 1
\* Callers that may each have one call of the cipher in progress.
MaxCalls == 2
\* POST /clerk requests delivered in one run.
MaxDeliveries == 2

\* ------------------------------------------------------------ helpers
Min(a, b) == IF a < b THEN a ELSE b

\* Buffer.subarray(start, end): indices are 0-based, end exclusive, both
\* clamped to the buffer's length.
Subarray(buf, start, end) ==
    LET s == Min(start, Len(buf))
        e == Min(end, Len(buf))
    IN  IF e <= s THEN << >> ELSE SubSeq(buf, s + 1, e)

\* The sequence with the elements of f, held as a tuple (TLC would otherwise
\* recompute an element of [i \in 1 .. n |-> e] at every access).
Seq1(f) == f \o << >>

\* Byte i (1-based) of a buffer, 0 past its end.
At(buf, i) == IF i <= Len(buf) THEN buf[i] ELSE 0

\* ------------------------------------------------------------ UTF-8
IsHigh(u) == u >= 55296 /\ u <= 56319
IsLow(u) == u >= 56320 /\ u <= 57343
IsCont(b) == b >= 128 /\ b <= 191

\* Buffer.from(str, 'utf8') / cipher.update(str, 'utf8'): an unpaired
\* surrogate is encoded as U+FFFD (EF BF BD).
RECURSIVE Utf8Encode(_)
Utf8Encode(s) ==
    IF s = << >> THEN << >>
    ELSE LET u == Head(s) IN
         IF u < 128 THEN <<u>> \o Utf8Encode(Tail(s))
         ELSE IF u < 2048
              THEN <<192 + (u \div 64), 128 + (u % 64)>> \o Utf8Encode(Tail(s))
         ELSE IF IsHigh(u) /\ Len(s) >= 2 /\ IsLow(s[2])
              THEN LET cp == 65536 + (u - 55296) * 1024 + (s[2] - 56320)
                   IN  <<240 + (cp \div 262144), 128 + ((cp \div 4096) % 64),
                         128 + ((cp \div 64) % 64), 128 + (cp % 64)>>
                       \o Utf8Encode(Tail(Tail(s)))
         ELSE IF IsHigh(u) \/ IsLow(u)
              THEN <<239, 191, 189>> \o Utf8Encode(Tail(s))
         ELSE <<224 + (u \div 4096), 128 + ((u \div 64) % 64), 128 + (u % 64)>>
              \o Utf8Encode(Tail(s))

\* buf.toString('utf8'): an invalid byte decodes to U+FFFD.
RECURSIVE Utf8Decode(_)
Utf8Decode(b) ==
    IF b = << >> THEN << >>
    ELSE LET b1 == b[1]
             n == Len(b)
             cp3 == (b1 - 224) * 4096 + (b[2] - 128) * 64 + (b[3] - 128)
             cp4 == (b1 - 240) * 262144 + (b[2] - 128) * 4096
                    + (b[3] - 128) * 64 + (b[4] - 128)
         IN
         IF b1 < 128 THEN <<b1>> \o Utf8Decode(Tail(b))
         ELSE IF b1 >= 194 /\ b1 <= 223 /\ n >= 2 /\ IsCont(b[2])
              THEN <<(b1 - 192) * 64 + (b[2] - 128)>> \o Utf8Decode(SubSeq(b, 3, n))
         ELSE IF b1 >= 224 /\ b1 <= 239 /\ n >= 3 /\ IsCont(b[2]) /\ IsCont(b[3])
                 /\ cp3 >= 2048 /\ ~IsHigh(cp3) /\ ~IsLow(cp3)
              THEN <<cp3>> \o Utf8Decode(SubSeq(b, 4, n))
         ELSE IF b1 >= 240 /\ b1 <= 244 /\ n >= 4 /\ IsCont(b[2]) /\ IsCont(b[3])
                 /\ IsCont(b[4]) /\ cp4 >= 65536 /\ cp4 <= 1114111
              THEN <<55296 + ((cp4 - 65536) \div 1024), 56320 + ((cp4 - 65536) % 1024)>>
                   \o Utf8Decode(SubSeq(b, 5, n))
         ELSE <<65533>> \o Utf8Decode(Tail(b))

\* ------------------------------------------------------------ base64
\* Code unit of the base64 digit with value v (0..63).
B64Char(v) ==
    IF v < 26 THEN 65 + v
    ELSE IF v < 52 THEN 97 + (v - 26)
    ELSE IF v < 62 THEN 48 + (v - 52)
    ELSE IF v = 62 THEN 43 ELSE 47

\* Value of a base64 digit, -1 for a code unit outside the alphabet.  The
\* URL-safe digits '-' and '_' are accepted as 62 and 63.
B64Val(c) ==
    IF c >= 65 /\ c <= 90 THEN c - 65
    ELSE IF c >= 97 /\ c <= 122 THEN c - 97 + 26
    ELSE IF c >= 48 /\ c <= 57 THEN c - 48 + 52
    ELSE IF c = 43 \/ c = 45 THEN 62
    ELSE IF c = 47 \/ c = 95 THEN 63
    ELSE -1

\* buf.toString('base64'): three bytes to four digits, '=' padding.
Base64Encode(b) ==
    LET n == Len(b)
        Digit(c) ==
            LET g == 3 * ((c - 1) \div 4)
                q == (c - 1) % 4
            IN  IF q = 0 THEN B64Char(At(b, g + 1) \div 4)
                ELSE IF q = 1
                     THEN B64Char((At(b, g + 1) % 4) * 16 + (At(b, g + 2) \div 16))
                ELSE IF q = 2
                     THEN IF g + 2 > n THEN 61
                          ELSE B64Char((At(b, g + 2) % 16) * 4 + (At(b, g + 3) \div 64))
                ELSE IF g + 3 > n THEN 61 ELSE B64Char(At(b, g + 3) % 64)
    IN  Seq1([c \in 1 .. 4 * ((n + 2) \div 3) |-> Digit(c)])

\* The digits of a string up to its first '=', other code units skipped.
B64Digits(s) ==
    LET pads == {i \in 1 .. Len(s) : s[i] = 61}
        stop == IF pads = {} THEN Len(s)
                ELSE (CHOOSE i \in pads : \A j \in pads : i <= j) - 1
        kept == SelectSeq(SubSeq(s, 1, stop), LAMBDA c : B64Val(c) >= 0)
    IN  Seq1([i \in 1 .. Len(kept) |-> B64Val(kept[i])])

\* Four digits to three bytes; a last group of two or three digits gives
\* one or two bytes, a single left-over digit none.
B64Bytes(d) ==
    LET n == Len(d)
        r == n % 4
        len == 3 * (n \div 4) + (IF r = 2 THEN 1 ELSE IF r = 3 THEN 2 ELSE 0)
        ByteAt(i) ==
            LET g == 4 * ((i - 1) \div 3)
                q == (i - 1) % 3
            IN  IF q = 0 THEN d[g + 1] * 4 + (d[g + 2] \div 16)
                ELSE IF q = 1 THEN (d[g + 2] % 16) * 16 + (d[g + 3] \div 4)
                ELSE (d[g + 3] % 4) * 64 + d[g + 4]
    IN  Seq1([i \in 1 .. len |-> ByteAt(i)])

\* Buffer.from(str, 'base64'): never throws; decodes what digits there are.
Base64Decode(s) == B64Bytes(B64Digits(s))

\* ------------------------------------------------------------ errors
\* Thrown by getEncryptionKey (lines 127-130).
ConfigurationError ==
    "Missing ENCRYPTION_KEY environment variable. Generate one with: openssl rand -base64 32"
\* Thrown by verifyEncryptionConfig (lines 207-210).
VerifyConfigurationError ==
    "Missing ENCRYPTION_KEY environment variable. Generate one with: openssl rand -base64 32"
\* Thrown by verifyEncryptionConfig (line 219).
SelfTestError == "Encryption self-test failed"
\* Thrown by decipher.final() (line 195) when the tag does not verify.
DecryptionError == "Unsupported state or unable to authenticate data"
\* Thrown by createDecipheriv (line 190) for an empty nonce.
InvalidIvError == "Invalid initialization vector"
\* Thrown by decipher.setAuthTag (line 191) for a tag of a length GCM forbids.
InvalidTagLengthError == "Invalid authentication tag length"
\* Thrown by randomBytes or scryptSync when the primitive is unavailable.
CryptoError == "crypto primitive unavailable"

NoError == "none"

\* ------------------------------------------------------------ primitives
\* The buffer randomBytes(n) returns as the k-th output of the random source.
RandomBuffer(n, k) == Seq1([i \in 1 .. n |-> (k * 37 + i * 3) % 256])

\* scryptSync(secret, salt, keylen): deterministic in (secret, salt).
ScryptSync(secret, salt, keylen) ==
    LET pw == Utf8Encode(secret)
        PwAt(i) == IF pw = << >> THEN 0 ELSE pw[((i - 1) % Len(pw)) + 1]
        SaltAt(i) == IF salt = << >> THEN 0 ELSE salt[((i - 1) % Len(salt)) + 1]
    IN  Seq1([i \in 1 .. keylen |->
                (SaltAt(i) + PwAt(i) * 7 + Len(pw) * 13 + Len(salt) + i) % 256])

\* Byte j of the GCM keystream under (key, iv).
Keystream(key, iv, j) ==
    (key[((j - 1) % KEY_LENGTH) + 1] + At(iv, ((j - 1) % IV_LENGTH) + 1) + j) % 256

\* cipher.update(..) ++ cipher.final(): counter mode, one ciphertext byte per
\* plaintext byte.
GcmEncrypt(key, iv, pt) ==
    Seq1([j \in 1 .. Len(pt) |-> (pt[j] + Keystream(key, iv, j)) % 256])

\* decipher.update(..): the inverse of GcmEncrypt.
GcmDecrypt(key, iv, ct) ==
    Seq1([j \in 1 .. Len(ct) |-> (ct[j] + 256 - Keystream(key, iv, j)) % 256])

RECURSIVE TagSum(_, _, _)
TagSum(ct, i, j) ==
    IF j > Len(ct) THEN 0
    ELSE ct[j] * (2 * ((j - 1) \div AUTH_TAG_LENGTH) + 1)
         + TagSum(ct, i, j + AUTH_TAG_LENGTH)

\* cipher.getAuthTag(): 16 bytes binding key, nonce, length and every byte of
\* the ciphertext.
GcmTag(key, iv, ct) ==
    Seq1([i \in 1 .. AUTH_TAG_LENGTH |->
            (key[i] + At(iv, i) * 5 + Len(iv) + Len(ct) * 11 + TagSum(ct, i, i)) % 256])

\* The tag lengths decipher.setAuthTag accepts for GCM.
ValidGcmTagLength(n) == n \in {4, 8, 12, 13, 14, 15, 16}

\* ------------------------------------------------------------ environment
\* process.env.ENCRYPTION_KEY: unset, or a string.
Unset == [set |-> FALSE, value |-> << >>]
EnvOf(str) == [set |-> TRUE, value |-> str]

\* `!secret` (line 126) and `!process.env.ENCRYPTION_KEY` (line 206): true
\* for an unset variable and for the empty string.
SecretMissing(e) == ~e.set \/ e.value = << >>

\* ------------------------------------------------------------ getEncryptionKey
\* Mutant: the key is derived from the salt alone, the secret only tested
\* for presence.
GetEncryptionKeySaltOnly(e, salt, fault) ==
    IF ~e.set \/ e.value = << >>
    THEN [threw |-> TRUE, error |-> ConfigurationError, key |-> << >>, ops |-> << >>]
    ELSE [threw |-> FALSE, error |-> NoError,
          key |-> ScryptSync(<<115>>, salt, KEY_LENGTH), ops |-> <<"scryptSync">>]

\* Mutant: a built-in development secret "dev" stands in for a missing one
\* (process.env.ENCRYPTION_KEY || 'dev').
GetEncryptionKeyWithDefault(e, salt, fault) ==
    [threw |-> FALSE, error |-> NoError,
     key |-> ScryptSync(IF ~e.set \/ e.value = << >> THEN <<100, 101, 118>>
                        ELSE e.value, salt, KEY_LENGTH),
     ops |-> <<"scryptSync">>]

\* fault names the primitive that is unavailable during the call, "none"
\* when all work.
GetEncryptionKey(e, salt, fault) ==
    IF SecretMissing(e)
    THEN [threw |-> TRUE, error |-> ConfigurationError, key |-> << >>, ops |-> << >>]
    ELSE IF fault = "scryptSync"
    THEN [threw |-> TRUE, error |-> CryptoError, key |-> << >>,
          ops |-> <<"scryptSync">>]
    ELSE [threw |-> FALSE, error |-> NoError,
          key |-> ScryptSync(e.value, salt, KEY_LENGTH), ops |-> <<"scryptSync">>]

\* ------------------------------------------------------------ encrypt
\* What a call leaves behind: whether it threw, the error, the returned
\* string, the functions entered ("encrypt", "decrypt") and the primitives
\* invoked, in order, and the buffers it worked on.
Outcome(threw, error, value, ops, salt, iv, authTag, body) ==
    [threw |-> threw, error |-> error, value |-> value, ops |-> ops,
     salt |-> salt, iv |-> iv, authTag |-> authTag, body |-> body]

Thrown(error, ops, salt, iv, authTag, body) ==
    Outcome(TRUE, error, << >>, ops, salt, iv, authTag, body)

\* Mutant: the tag appended after the ciphertext.
CombineTagLast(salt, iv, authTag, encrypted) == salt \o iv \o encrypted \o authTag

\* Buffer.concat([salt, iv, authTag, encrypted]) (line 162).
Combine(salt, iv, authTag, encrypted) == salt \o iv \o authTag \o encrypted

\* The salt and the nonce of an encrypt call that starts when the random
\* source has produced k buffers (lines 145-146).
\* Mutant: one salt generated at load time and used by every call.
DrawSaltOnce(k) == RandomBuffer(SALT_LENGTH, 0)
DrawSalt(k) == RandomBuffer(SALT_LENGTH, k)
DrawIv(k) == RandomBuffer(IV_LENGTH, k + 1)

\* encrypt(plaintext) with process.env.ENCRYPTION_KEY = e.
Encrypt(e, plaintext, k, fault) ==
    IF fault = "randomBytes"
    THEN Thrown(CryptoError, <<"encrypt", "randomBytes">>, << >>, << >>, << >>, << >>)
    ELSE
    LET salt == DrawSalt(k)
        iv == DrawIv(k)
        drawOps == <<"encrypt", "randomBytes", "randomBytes">>
        k1 == GetEncryptionKey(e, salt, fault)
    IN  IF k1.threw
        THEN Thrown(k1.error, drawOps \o k1.ops, salt, iv, << >>, << >>)
        ELSE
        LET encrypted == GcmEncrypt(k1.key, iv, Utf8Encode(plaintext))
            authTag == GcmTag(k1.key, iv, encrypted)
            combined == Combine(salt, iv, authTag, encrypted)
        IN  Outcome(FALSE, NoError, Base64Encode(combined),
                    drawOps \o k1.ops
                        \o <<"createCipheriv", "cipher.update", "cipher.final",
                             "getAuthTag">>,
                    salt, iv, authTag, encrypted)

\* Buffers the random source handed out during an encrypt call.
Draws(fault) == IF fault = "randomBytes" THEN 0 ELSE 2

\* ------------------------------------------------------------ decrypt
\* The four subarray calls of lines 178-184.
ExtractSalt(combined) == Subarray(combined, 0, SALT_LENGTH)
ExtractIv(combined) == Subarray(combined, SALT_LENGTH, SALT_LENGTH + IV_LENGTH)
ExtractAuthTag(combined) ==
    Subarray(combined, SALT_LENGTH + IV_LENGTH,
             SALT_LENGTH + IV_LENGTH + AUTH_TAG_LENGTH)
\* Mutant: the ciphertext is taken from the end of the nonce, tag included.
ExtractCiphertextFromTag(combined) ==
    Subarray(combined, SALT_LENGTH + IV_LENGTH, Len(combined))
ExtractCiphertext(combined) ==
    Subarray(combined, SALT_LENGTH + IV_LENGTH + AUTH_TAG_LENGTH, Len(combined))

\* decipher.final() (line 195): true when the tag set by setAuthTag equals
\* the leading bytes of the tag computed over the ciphertext.
\* Mutant: a cipher mode without authentication, final() never throws.
TagVerifiesUnchecked(key, iv, ciphertext, authTag) == TRUE
TagVerifies(key, iv, ciphertext, authTag) ==
    authTag = SubSeq(GcmTag(key, iv, ciphertext), 1, Len(authTag))

\* Mutant: the message tells an empty ciphertext from a non-empty one.
FinalErrorByLength(ciphertext) ==
    IF ciphertext = << >> THEN "Envelope carries no ciphertext" ELSE DecryptionError

\* The error decipher.final() throws when the tag does not verify: the same
\* whatever the ciphertext.
FinalError(ciphertext) == DecryptionError

\* decrypt(encryptedData) with process.env.ENCRYPTION_KEY = e.
Decrypt(e, encryptedData, fault) ==
    LET combined == Base64Decode(encryptedData)
        salt == ExtractSalt(combined)
        iv == ExtractIv(combined)
        authTag == ExtractAuthTag(combined)
        ciphertext == ExtractCiphertext(combined)
        k1 == GetEncryptionKey(e, salt, fault)
    IN  IF k1.threw
        THEN Thrown(k1.error, <<"decrypt">> \o k1.ops, salt, iv, authTag, ciphertext)
        ELSE IF Len(iv) = 0
        THEN Thrown(InvalidIvError, <<"decrypt">> \o k1.ops \o <<"createDecipheriv">>,
                    salt, iv, authTag, ciphertext)
        ELSE IF ~ValidGcmTagLength(Len(authTag))
        THEN Thrown(InvalidTagLengthError,
                    <<"decrypt">> \o k1.ops \o <<"createDecipheriv", "setAuthTag">>,
                    salt, iv, authTag, ciphertext)
        ELSE
        LET ops == <<"decrypt">> \o k1.ops
                   \o <<"createDecipheriv", "setAuthTag",
                        "decipher.update", "decipher.final">>
        IN  IF ~TagVerifies(k1.key, iv, ciphertext, authTag)
            THEN Thrown(FinalError(ciphertext), ops, salt, iv, authTag, ciphertext)
            ELSE Outcome(FALSE, NoError,
                         Utf8Decode(GcmDecrypt(k1.key, iv, ciphertext)),
                         ops, salt, iv, authTag, ciphertext)

\* ------------------------------------------------------------ verifyEncryptionConfig
RECURSIVE Digits(_)
\* String(n) for a non-negative integer: its decimal digits as code units.
Digits(n) == IF n < 10 THEN <<48 + n>> ELSE Digits(n \div 10) \o <<48 + (n % 10)>>

\* 'encryption-test-' + Date.now() (line 214).
TestValue(now) ==
    <<101, 110, 99, 114, 121, 112, 116, 105, 111, 110, 45, 116, 101, 115, 116, 45>>
    \o Digits(now)

\* Mutant: the round trip wrapped in try/catch, every error rethrown as the
\* self-test error.
VerifyEncryptionConfigWrapping(e, now, k, faultE, faultD) ==
    IF SecretMissing(e)
    THEN Thrown(VerifyConfigurationError, << >>, << >>, << >>, << >>, << >>)
    ELSE
    LET enc == Encrypt(e, TestValue(now), k, faultE)
        dec == Decrypt(e, enc.value, faultD)
    IN  IF enc.threw
        THEN Thrown(SelfTestError, enc.ops, enc.salt, enc.iv, enc.authTag, enc.body)
        ELSE IF dec.threw \/ dec.value # TestValue(now)
        THEN Thrown(SelfTestError, enc.ops \o dec.ops,
                    dec.salt, dec.iv, dec.authTag, dec.body)
        ELSE Outcome(FALSE, NoError, << >>, enc.ops \o dec.ops,
                     dec.salt, dec.iv, dec.authTag, dec.body)

\* Mutant: no check of the variable before the round trip.
VerifyEncryptionConfigUnguarded(e, now, k, faultE, faultD) ==
    LET enc == Encrypt(e, TestValue(now), k, faultE)
        dec == Decrypt(e, enc.value, faultD)
    IN  IF enc.threw THEN enc
        ELSE IF dec.threw
        THEN Thrown(dec.error, enc.ops \o dec.ops,
                    dec.salt, dec.iv, dec.authTag, dec.body)
        ELSE IF dec.value # TestValue(now)
        THEN Thrown(SelfTestError, enc.ops \o dec.ops,
                    dec.salt, dec.iv, dec.authTag, dec.body)
        ELSE Outcome(FALSE, NoError, << >>, enc.ops \o dec.ops,
                     dec.salt, dec.iv, dec.authTag, dec.body)

\* verifyEncryptionConfig() with process.env.ENCRYPTION_KEY = e, Date.now()
\* = now; faultE and faultD name the primitive unavailable during the
\* encrypt and the decrypt call.  Nothing is caught: an error thrown by
\* encrypt or decrypt leaves the function as it is.
VerifyEncryptionConfig(e, now, k, faultE, faultD) ==
    IF SecretMissing(e)
    THEN Thrown(VerifyConfigurationError, << >>, << >>, << >>, << >>, << >>)
    ELSE
    LET testValue == TestValue(now)
        enc == Encrypt(e, testValue, k, faultE)
    IN  IF enc.threw THEN enc
        ELSE
        LET dec == Decrypt(e, enc.value, faultD)
            ops == enc.ops \o dec.ops
        IN  IF dec.threw
            THEN Thrown(dec.error, ops, dec.salt, dec.iv, dec.authTag, dec.body)
            ELSE IF dec.value # testValue
            THEN Thrown(SelfTestError, ops, dec.salt, dec.iv, dec.authTag, dec.body)
            ELSE Outcome(FALSE, NoError, << >>, ops,
                         dec.salt, dec.iv, dec.authTag, dec.body)

\* Buffers the random source handed out during a verifyEncryptionConfig call.
VerifyDraws(e, faultE) == IF SecretMissing(e) THEN 0 ELSE Draws(faultE)

\* ------------------------------------------------------------ state
VARIABLES
    env,     \* process.env.ENCRYPTION_KEY
    rng,     \* number of buffers the random source has produced
    issued,  \* the successful encrypt calls so far, in order: the secret, the
             \* plaintext, the state of the random source and the envelope
    last,    \* the call that has just returned or thrown, Idle between calls
    failed,  \* cause and error of the latest authentication failure of decrypt
    calls,   \* the activation record of every call in progress, by caller
    logged,  \* what console.log and console.error have written, in order
    signing, \* process.env.CLERK_WEBHOOK_SIGNING_SECRET
    users,   \* the rows of the users table
    reqs     \* the POST /clerk requests: payload, position in the handler,
             \* its locals and the response

vars == <<env, rng, issued, last, failed, calls, logged, signing, users, reqs>>

\* The state of the webhook endpoint, which no function of the cipher touches.
webhookVars == <<signing, users, reqs>>

\* Master secrets "k1" and "k2".
Secrets == {<<107, 49>>, <<107, 50>>}

EnvValues == {Unset, EnvOf(<< >>)} \cup {EnvOf(s) : s \in Secrets}

\* "", "a€😀" and "\uD800a" (an unpaired surrogate).
Plaintexts == {<< >>, <<97, 8364, 55357, 56832>>, <<55296, 97>>}

\* Strings that are no envelope: "", "!!", "QUJD", "A=B", and 88 times "A"
\* (66 zero bytes).
RawInputs ==
    {<< >>, <<33, 33>>, <<81, 85, 74, 68>>, <<65, 61, 66>>, [i \in 1 .. 88 |-> 65]}

Faults == {"none", "randomBytes", "scryptSync"}

NoOrigin == [kind |-> "none", idx |-> 0, pos |-> 0, delta |-> 0]

NoOutcome == Outcome(FALSE, NoError, << >>, << >>, << >>, << >>, << >>, << >>)

\* A call: the function, the secret and the state of the random source when
\* it started, its argument, the primitives unavailable during it, what it
\* left behind, and where a decrypt argument came from.
Call(op, e, arg, out, origin, k, faults) ==
    [op |-> op, env |-> e, arg |-> arg, out |-> out, origin |-> origin,
     k |-> k, faults |-> faults]

Idle == Call("none", Unset, << >>, NoOutcome, NoOrigin, 0, << >>)

NoFailure == [cause |-> "none", error |-> NoError]

CallIds == 1 .. MaxCalls

\* The activation record of a call: the function called (op), the statement
\* it is at (pc, "done" once it has returned or thrown), the parameters and
\* const bindings of encrypt (lines 143-164) and decrypt (lines 173-198),
\* what the call left behind, the functions entered and primitives invoked so far (ops), and
\* the positions in the random source of the buffers it drew (drew).
Frame(op, pc, plaintext, encryptedData, ops) ==
    [op |-> op, pc |-> pc, plaintext |-> plaintext, encryptedData |-> encryptedData,
     salt |-> << >>, iv |-> << >>, key |-> << >>, authTag |-> << >>, body |-> << >>,
     threw |-> FALSE, error |-> NoError, value |-> << >>, ops |-> ops,
     drew |-> << >>]

\* No call in progress.
Free == Frame("none", "free", << >>, << >>, << >>)

RequestIds == 1 .. MaxDeliveries

\* A value that is not there: undefined or null.
Absent == "<absent>"

\* The event a request carries: its type and the fields of evt.data the
\* handler reads.
Event(type, id, emails, primary, firstName, lastName, org) ==
    [type |-> type,
     data |-> [id |-> id, email_addresses |-> emails,
               primary_email_address_id |-> primary, first_name |-> firstName,
               last_name |-> lastName, organization_id |-> org]]

\* A POST /clerk request: the secret its sender signed it with and its event;
\* the statement the handler is at ("none" before delivery, "done" once
\* answered), its bindings signingSecret and existingUser, the response, and
\* the queries it has sent to the users table (db).
Request(pc, signedWith, evt) ==
    [pc |-> pc, signedWith |-> signedWith, evt |-> evt,
     signingSecret |-> << >>, existingUser |-> << >>, status |-> 0, message |-> "",
     db |-> << >>]

\* A request that has not been delivered.
NoRequest == Request("none", << >>, Event("none", Absent, << >>, Absent, Absent, Absent, Absent))

\* The cipher at rest, the webhook endpoint not yet configured and without
\* requests.
Init ==
    /\ env \in EnvValues
    /\ rng \in 0 .. MaxSeed
    /\ issued = << >>
    /\ last = Idle
    /\ failed = NoFailure
    /\ calls = [c \in CallIds |-> Free]
    /\ logged = << >>
    /\ signing = Unset
    /\ users = << >>
    /\ reqs = [r \in RequestIds |-> NoRequest]

\* The environment variable is set, changed or removed between calls.
SetEnv(e) ==
    /\ last = Idle
    /\ e # env
    /\ env' = e
    /\ UNCHANGED <<rng, issued, last, failed, calls, logged, webhookVars>>

\* A call encrypt(p).
EncryptCall(p, fault) ==
    /\ last = Idle
    /\ rng + Draws(fault) <= MaxRng
    /\ LET out == Encrypt(env, p, rng, fault)
       IN  /\ last' = Call("encrypt", env, p, out, NoOrigin, rng, <<fault>>)
           /\ issued' = IF out.threw THEN issued
                        ELSE Append(issued, [env |-> env, plaintext |-> p, k |-> rng,
                                             value |-> out.value])
    /\ rng' = rng + Draws(fault)
    /\ UNCHANGED <<env, failed, calls, logged, webhookVars>>

\* The decoded bytes of the i-th issued envelope.
IssuedBytes(i) == Base64Decode(issued[i].value)

\* Offsets at which an envelope is tampered with: every byte of the tag and
\* of the ciphertext, the first and last byte of the salt and of the nonce.
TamperOffsets(b) ==
    (SALT_LENGTH + IV_LENGTH .. Len(b) - 1)
    \cup {0, SALT_LENGTH - 1, SALT_LENGTH, SALT_LENGTH + IV_LENGTH - 1}

\* Lengths to which an envelope is cut: inside and at the end of each fixed
\* field, and inside the ciphertext.
TruncLengths(b) ==
    {0, 16, SALT_LENGTH, 40, SALT_LENGTH + IV_LENGTH, 50, 52, 56, 60, 63}
    \cup (SALT_LENGTH + IV_LENGTH + AUTH_TAG_LENGTH .. Len(b) - 1)

DecryptCall(data, origin, fault) ==
    /\ last = Idle
    /\ last' = Call("decrypt", env, data, Decrypt(env, data, fault), origin,
                    rng, <<fault>>)
    /\ UNCHANGED <<env, rng, issued, failed, calls, logged, webhookVars>>

\* decrypt of an envelope as encrypt returned it.
DecryptIntact(i, fault) ==
    DecryptCall(issued[i].value,
                [kind |-> "intact", idx |-> i, pos |-> 0, delta |-> 0], fault)

\* decrypt of the i-th issued envelope, of decoded bytes b, with the byte at
\* offset pos changed.
DecryptTampered(i, b, pos, d, fault) ==
    DecryptCall(Base64Encode([b EXCEPT ![pos + 1] = (@ + d) % 256]),
                [kind |-> "tamper", idx |-> i, pos |-> pos, delta |-> d], fault)

\* decrypt of the first n bytes of the i-th issued envelope, of decoded
\* bytes b.
DecryptTruncated(i, b, n, fault) ==
    DecryptCall(Base64Encode(SubSeq(b, 1, n)),
                [kind |-> "truncate", idx |-> i, pos |-> n, delta |-> 0], fault)

\* decrypt of a string that never was an envelope.
DecryptRaw(data, fault) ==
    DecryptCall(data, [kind |-> "raw", idx |-> 0, pos |-> 0, delta |-> 0], fault)

\* Mutant: a missing secret is replaced, for the rest of the process, by a
\* development secret "dev" (process.env.ENCRYPTION_KEY ||= 'dev').
VerifyCallDefaulting(now, faultE, faultD) ==
    /\ last = Idle
    /\ rng + VerifyDraws(env, faultE) <= MaxRng
    /\ last' = Call("verify", env, TestValue(now),
                    VerifyEncryptionConfig(env, now, rng, faultE, faultD), NoOrigin,
                    rng, <<faultE, faultD>>)
    /\ rng' = rng + VerifyDraws(env, faultE)
    /\ env' = IF SecretMissing(env) THEN EnvOf(<<100, 101, 118>>) ELSE env
    /\ UNCHANGED <<issued, failed, calls, logged, webhookVars>>

\* A call verifyEncryptionConfig().
VerifyCall(now, faultE, faultD) ==
    /\ last = Idle
    /\ rng + VerifyDraws(env, faultE) <= MaxRng
    /\ last' = Call("verify", env, TestValue(now),
                    VerifyEncryptionConfig(env, now, rng, faultE, faultD), NoOrigin,
                    rng, <<faultE, faultD>>)
    /\ rng' = rng + VerifyDraws(env, faultE)
    /\ UNCHANGED <<env, issued, failed, calls, logged, webhookVars>>

\* Why a decrypt call that reached decipher.final() with a full-length
\* envelope failed there: the secret differs from the one the envelope was
\* made under, a byte of the tag was changed, or the envelope was corrupted
\* elsewhere.
Cause(c) ==
    IF c.origin.kind = "intact" THEN "wrong secret"
    ELSE IF c.origin.kind = "tamper"
            /\ c.origin.pos >= SALT_LENGTH + IV_LENGTH
            /\ c.origin.pos < SALT_LENGTH + IV_LENGTH + AUTH_TAG_LENGTH
            /\ c.env = issued[c.origin.idx].env
         THEN "tag mismatch"
    ELSE "corrupted"

\* A decrypt call of at least 64 decoded bytes, made with the secret present
\* and the primitives available, that threw.
AuthFailure(c) ==
    /\ c.op = "decrypt"
    /\ c.out.threw
    /\ ~SecretMissing(c.env)
    /\ c.out.error # CryptoError
    /\ Len(Base64Decode(c.arg)) >= SALT_LENGTH + IV_LENGTH + AUTH_TAG_LENGTH

\* The caller takes the result or the error of the call.
Return ==
    /\ last # Idle
    /\ last' = Idle
    /\ failed' = IF AuthFailure(last)
                 THEN [cause |-> Cause(last), error |-> last.out.error]
                 ELSE failed
    /\ UNCHANGED <<env, rng, issued, calls, logged, webhookVars>>

\* The faults of fs that can show in a decrypt call, which draws no random
\* bytes.
DecryptFaults(fs) == fs \ {"randomBytes"}

\* The calls on plaintexts, on envelopes as issued and on other strings,
\* with the primitives failing as fs allows.
Calls(fs) ==
    \/ \E p \in Plaintexts, f \in fs : EncryptCall(p, f)
    \/ \E i \in 1 .. Len(issued), f \in DecryptFaults(fs) : DecryptIntact(i, f)
    \/ \E data \in RawInputs, f \in DecryptFaults(fs) : DecryptRaw(data, f)
    \/ \E now \in 0 .. MaxNow, fe \in fs, fd \in DecryptFaults(fs) :
          VerifyCall(now, fe, fd)
    \/ \E e \in EnvValues : SetEnv(e)
    \/ Return

\* The decrypt calls on envelopes changed or cut after they were issued.
Tampering ==
    \/ \E i \in 1 .. Len(issued) :
          \E pos \in TamperOffsets(IssuedBytes(i)), d \in 1 .. MaxDelta :
              DecryptTampered(i, IssuedBytes(i), pos, d, "none")
    \/ \E i \in 1 .. Len(issued) :
          \E n \in TruncLengths(IssuedBytes(i)) :
              DecryptTruncated(i, IssuedBytes(i), n, "none")

\* Every primitive is available; envelopes may be tampered with.
Next == Calls({"none"}) \/ Tampering

Spec == Init /\ [][Next]_vars

\* randomBytes or scryptSync may be unavailable during a call.
NextFault == Calls(Faults)

SpecFault == Init /\ [][NextFault]_vars

\* ------------------------------------------------------------ calls in progress
\* encrypt and decrypt statement by statement, a statement named by the line
\* it starts at.  The functions are synchronous, so the runtime runs the
\* statements of one call without a statement of another in between;
\* SpecSteps puts no such order on the callers and allows every interleaving
\* of their statements, those of the runtime included.

\* The caller whose activation record holds the salt of call c: its own
\* (`const salt`, lines 145 and 178, is a binding of the function body).
\* Mutant: `salt` declared at module level, one buffer for every call.
SaltOwnerModule(c) == 1
SaltOwner(c) == c

\* The calls in progress draw at most MaxRng buffers, after the two of the
\* envelope in store.
StepRngLimit == MaxRng + 2

\* Buffers a call at f.pc has yet to draw from the random source.
DrawsLeft(f) ==
    IF f.pc = "e145" THEN 2 ELSE IF f.pc = "e146" THEN 1 ELSE 0

RECURSIVE PendingDraws(_)
\* Buffers the calls in progress of callers 1..n have yet to draw.
PendingDraws(n) == IF n = 0 THEN 0 ELSE DrawsLeft(calls[n]) + PendingDraws(n - 1)

\* The bindings of a function body are gone when the function is left.
Drop(f) ==
    [f EXCEPT !.salt = << >>, !.iv = << >>, !.key = << >>, !.authTag = << >>,
              !.body = << >>]

\* Mutant: a failed call is started over once before the error is passed on.
ThrowRetrying(f, error, ops) ==
    IF Len(SelectSeq(f.ops, LAMBDA o : o \in {"encrypt", "decrypt"})) < 2
    THEN [Drop(f) EXCEPT !.pc = IF f.op = "encrypt" THEN "e145" ELSE "d175",
                         !.ops = @ \o ops \o <<f.op>>]
    ELSE [Drop(f) EXCEPT !.pc = "done", !.threw = TRUE, !.error = error,
                         !.value = << >>, !.ops = @ \o ops]

\* A statement of call f throws error after invoking ops: nothing in lines
\* 123-199 catches, so the error leaves encrypt or decrypt.
Throw(f, error, ops) ==
    [Drop(f) EXCEPT !.pc = "done", !.threw = TRUE, !.error = error,
                    !.value = << >>, !.ops = @ \o ops]

\* Caller c calls encrypt(p).
StartEncrypt(c, p) ==
    /\ calls[c].pc = "free"
    /\ rng + PendingDraws(MaxCalls) + 2 <= StepRngLimit
    /\ calls' = [calls EXCEPT ![c] = Frame("encrypt", "e145", p, << >>, <<"encrypt">>)]
    /\ UNCHANGED <<env, rng, issued, last, failed, logged, webhookVars>>

\* Caller c calls decrypt(data).
StartDecrypt(c, data) ==
    /\ calls[c].pc = "free"
    /\ calls' = [calls EXCEPT ![c] = Frame("decrypt", "d175", << >>, data, <<"decrypt">>)]
    /\ UNCHANGED <<env, rng, issued, last, failed, logged, webhookVars>>

\* Line 145: const salt = randomBytes(SALT_LENGTH).
DrawSaltStep(c) ==
    /\ calls[c].pc = "e145"
    /\ calls' = [calls EXCEPT ![c].pc = "e146",
                              ![c].ops = Append(@, "randomBytes"),
                              ![c].drew = Append(@, rng),
                              ![SaltOwner(c)].salt = DrawSalt(rng)]
    /\ rng' = rng + 1
    /\ UNCHANGED <<env, issued, last, failed, logged, webhookVars>>

\* Line 146: const iv = randomBytes(IV_LENGTH).
DrawIvStep(c) ==
    /\ calls[c].pc = "e146"
    /\ calls' = [calls EXCEPT ![c].pc = "e149",
                              ![c].ops = Append(@, "randomBytes"),
                              ![c].drew = Append(@, rng),
                              ![c].iv = DrawIv(rng - 1)]
    /\ rng' = rng + 1
    /\ UNCHANGED <<env, issued, last, failed, logged, webhookVars>>

\* The record of call c after getEncryptionKey(salt).
AfterGetKey(c) ==
    LET k1 == GetEncryptionKey(env, calls[SaltOwner(c)].salt, "none")
    IN  [calls EXCEPT ![c] =
           IF k1.threw THEN Throw(@, k1.error, k1.ops)
           ELSE [@ EXCEPT !.key = k1.key, !.ops = @ \o k1.ops,
                          !.pc = IF @ = "e149" THEN "e152" ELSE "d190"]]

\* Lines 149 and 187: const key = getEncryptionKey(salt).
GetKeyStep(c) ==
    /\ calls[c].pc \in {"e149", "d187"}
    /\ calls' = AfterGetKey(c)
    /\ UNCHANGED <<env, rng, issued, last, failed, logged, webhookVars>>

\* Lines 152-156: createCipheriv, cipher.update and cipher.final.
CipherStep(c) ==
    /\ calls[c].pc = "e152"
    /\ LET f == calls[c]
       IN  calls' = [calls EXCEPT ![c] =
                       [f EXCEPT !.body = GcmEncrypt(f.key, f.iv, Utf8Encode(f.plaintext)),
                                 !.ops = @ \o <<"createCipheriv", "cipher.update",
                                                "cipher.final">>,
                                 !.pc = "e159"]]
    /\ UNCHANGED <<env, rng, issued, last, failed, logged, webhookVars>>

\* Line 159: const authTag = cipher.getAuthTag().
AuthTagStep(c) ==
    /\ calls[c].pc = "e159"
    /\ LET f == calls[c]
       IN  calls' = [calls EXCEPT ![c] =
                       [f EXCEPT !.authTag = GcmTag(f.key, f.iv, f.body),
                                 !.ops = Append(@, "getAuthTag"),
                                 !.pc = "e162"]]
    /\ UNCHANGED <<env, rng, issued, last, failed, logged, webhookVars>>

\* Lines 162-164: the envelope is put together and returned.
EncryptReturnStep(c) ==
    /\ calls[c].pc = "e162"
    /\ LET f == calls[c]
           value == Base64Encode(Combine(calls[SaltOwner(c)].salt, f.iv, f.authTag,
                                         f.body))
       IN  /\ calls' = [calls EXCEPT ![c] = [Drop(f) EXCEPT !.value = value,
                                                            !.pc = "done"]]
           /\ issued' = Append(issued, [env |-> env, plaintext |-> f.plaintext,
                                        k |-> f.drew[1], value |-> value])
    /\ UNCHANGED <<env, rng, last, failed, logged, webhookVars>>

\* Lines 175-184: the input is decoded and cut into its four fields.
ExtractStep(c) ==
    /\ calls[c].pc = "d175"
    /\ LET combined == Base64Decode(calls[c].encryptedData)
       IN  calls' = [calls EXCEPT ![c].pc = "d187",
                                  ![c].iv = ExtractIv(combined),
                                  ![c].authTag = ExtractAuthTag(combined),
                                  ![c].body = ExtractCiphertext(combined),
                                  ![SaltOwner(c)].salt = ExtractSalt(combined)]
    /\ UNCHANGED <<env, rng, issued, last, failed, logged, webhookVars>>

\* Line 190: createDecipheriv(ALGORITHM, key, iv).
DecipherStep(c) ==
    /\ calls[c].pc = "d190"
    /\ calls' = [calls EXCEPT ![c] =
                   IF Len(@.iv) = 0
                   THEN Throw(@, InvalidIvError, <<"createDecipheriv">>)
                   ELSE [@ EXCEPT !.ops = Append(@, "createDecipheriv"),
                                  !.pc = "d191"]]
    /\ UNCHANGED <<env, rng, issued, last, failed, logged, webhookVars>>

\* Line 191: decipher.setAuthTag(authTag).
SetAuthTagStep(c) ==
    /\ calls[c].pc = "d191"
    /\ calls' = [calls EXCEPT ![c] =
                   IF ~ValidGcmTagLength(Len(@.authTag))
                   THEN Throw(@, InvalidTagLengthError, <<"setAuthTag">>)
                   ELSE [@ EXCEPT !.ops = Append(@, "setAuthTag"), !.pc = "d193"]]
    /\ UNCHANGED <<env, rng, issued, last, failed, logged, webhookVars>>

\* Lines 193-198: decipher.update, decipher.final and the return of the
\* decoded plaintext.
FinalStep(c) ==
    /\ calls[c].pc = "d193"
    /\ LET f == calls[c]
           ops == <<"decipher.update", "decipher.final">>
       IN  calls' = [calls EXCEPT ![c] =
                       IF ~TagVerifies(f.key, f.iv, f.body, f.authTag)
                       THEN Throw(f, FinalError(f.body), ops)
                       ELSE [Drop(f) EXCEPT
                               !.value = Utf8Decode(GcmDecrypt(f.key, f.iv, f.body)),
                               !.ops = @ \o ops,
                               !.pc = "done"]]
    /\ UNCHANGED <<env, rng, issued, last, failed, logged, webhookVars>>

\* Plaintexts given to encrypt while other calls run: "" and "a€😀".
StepPlaintexts == {<< >>, <<97, 8364, 55357, 56832>>}

\* Strings that are no envelope, given to decrypt while other calls run:
\* "" and 88 times "A".
StepInputs == {<< >>, [i \in 1 .. 88 |-> 65]}

\* The i-th issued envelope with the first byte of its tag changed.
TamperedEnvelope(i) ==
    Base64Encode([IssuedBytes(i) EXCEPT ![SALT_LENGTH + IV_LENGTH + 1] = (@ + 1) % 256])

NextSteps ==
    \/ \E c \in CallIds, p \in StepPlaintexts : StartEncrypt(c, p)
    \/ \E c \in CallIds, i \in 1 .. Len(issued) : StartDecrypt(c, issued[i].value)
    \/ \E c \in CallIds, i \in 1 .. Len(issued) : StartDecrypt(c, TamperedEnvelope(i))
    \/ \E c \in CallIds, data \in StepInputs : StartDecrypt(c, data)
    \/ \E c \in CallIds : DrawSaltStep(c)
    \/ \E c \in CallIds : DrawIvStep(c)
    \/ \E c \in CallIds : GetKeyStep(c)
    \/ \E c \in CallIds : CipherStep(c)
    \/ \E c \in CallIds : AuthTagStep(c)
    \/ \E c \in CallIds : EncryptReturnStep(c)
    \/ \E c \in CallIds : ExtractStep(c)
    \/ \E c \in CallIds : DecipherStep(c)
    \/ \E c \in CallIds : SetAuthTagStep(c)
    \/ \E c \in CallIds : FinalStep(c)

\* An envelope of "a€😀" is in store, made under the secret "k1" from the
\* first two buffers of the random source; the secret is still "k1" or has
\* since been emptied or removed.  Every caller is about to make one call.
InitSteps ==
    /\ env \in {Unset, EnvOf(<< >>), EnvOf(<<107, 49>>)}
    /\ rng = 2
    /\ issued = << [env |-> EnvOf(<<107, 49>>), plaintext |-> <<97, 8364, 55357, 56832>>,
                    k |-> 0,
                    value |-> Encrypt(EnvOf(<<107, 49>>), <<97, 8364, 55357, 56832>>,
                                      0, "none").value] >>
    /\ last = Idle
    /\ failed = NoFailure
    /\ calls = [c \in CallIds |-> Free]
    /\ logged = << >>
    /\ signing = Unset
    /\ users = << >>
    /\ reqs = [r \in RequestIds |-> NoRequest]

\* One call of the cipher per caller, under a secret that stays as it is,
\* the statements of the calls interleaved in every way.
SpecSteps == InitSteps /\ [][NextSteps]_vars

\* ------------------------------------------------------------ Clerk webhook
\* The handler of POST /clerk (src/src/functions/webhooks/api.ts, lines
\* 15-132) is async: it runs from one await to the next in one piece, and
\* the handlers of other requests run while it waits for verifyWebhook, for
\* prisma.users.findUnique and for prisma.users.create.  A statement is
\* named by the line of the await it starts after.

\* `!x` for a string that may be absent.
Falsy(x) == x \in {Absent, ""}

\* `x || ''`.
OrEmpty(x) == IF Falsy(x) THEN "" ELSE x

\* `!signingSecret` (line 20): true for an unset variable and for "".
SigningSecretMissing(e) == ~e.set \/ e.value = << >>

\* The secret Clerk signs with, "w1".
ClerkSecret == <<119, 49>>

\* Values of CLERK_WEBHOOK_SIGNING_SECRET.
SigningValues == {Unset, EnvOf(<< >>), EnvOf(ClerkSecret)}

\* Who signed a request: Clerk, or someone who does not know the secret
\* and signed with "x".
Senders == {ClerkSecret, <<120>>}

EmailAddress(id, address, status) ==
    [id |-> id, email_address |-> address, verification |-> status]

\* Events delivered: user.created for u1 with a primary address; for u1
\* with a primary id that matches no address and a second, verified one;
\* for u2 with one unverified address and no primary id; without user id;
\* without addresses; and a user.updated.
Events ==
    {Event("user.created", "u1", <<EmailAddress("e1", "a@x", "verified")>>, "e1",
           "Ann", Absent, Absent),
     Event("user.created", "u1",
           <<EmailAddress("e1", "a@x", "unverified"), EmailAddress("e2", "b@x", "verified")>>,
           "e9", "", "Lee", "org1"),
     Event("user.created", "u2", <<EmailAddress("e3", "c@x", Absent)>>, Absent,
           Absent, Absent, Absent),
     Event("user.created", Absent, <<EmailAddress("e1", "a@x", "verified")>>, "e1",
           Absent, Absent, Absent),
     Event("user.created", "u2", << >>, Absent, Absent, Absent, Absent),
     Event("user.updated", "u1", <<EmailAddress("e1", "a@x", "verified")>>, "e1",
           Absent, Absent, Absent)}

\* Mutant: the event is parsed from the body without a check of the
\* signature.
VerifyWebhookUnchecked(req, signingSecret) == TRUE

\* verifyWebhook(c.req.raw, {signingSecret}) (lines 29-31): resolves with the
\* event when the request was signed with signingSecret, rejects otherwise.
VerifyWebhook(req, signingSecret) == req.signedWith = signingSecret

\* Lines 51-62: the address whose id is primary_email_address_id, else the
\* first verified address, else the first address.
PrimaryEmail(userData) ==
    LET emails == userData.email_addresses
        byId == SelectSeq(emails, LAMBDA e : e.id = userData.primary_email_address_id)
        primaryEmail == IF byId = << >> THEN Absent ELSE byId[1].email_address
        verified == SelectSeq(emails, LAMBDA e : e.verification = "verified")
        firstVerified == IF verified = << >> THEN Absent ELSE verified[1].email_address
    IN  IF Falsy(primaryEmail) /\ Len(emails) # 0
        THEN IF Falsy(firstVerified) THEN emails[1].email_address ELSE firstVerified
        ELSE primaryEmail

\* A line of console output.
LogLine(level, text, arg) == [level |-> level, text |-> text, arg |-> arg]

\* c.json(errorResponse(message), status) / c.json(successResponse({message,
\* ..}), status): the request is answered.
Respond(req, status, message) ==
    [req EXCEPT !.pc = "done", !.status = status, !.message = message]

\* prisma.users.findUnique({where: {clerk_user_id}}) (lines 74-76): the row
\* with that clerk_user_id, in a sequence, or none.
UsersFindUnique(table, clerkUserId) ==
    SelectSeq(table, LAMBDA u : u.clerk_user_id = clerkUserId)

\* The message of the error prisma.users.create rejects with when a row with
\* the same clerk_user_id is there: findUnique takes only a unique column
\* in `where`, so clerk_user_id carries a unique constraint.
UniqueConstraintError == "Unique constraint failed on the fields: (clerk_user_id)"

\* The row prisma.users.create inserts for userData (lines 90-99).
NewUser(table, userData) ==
    [id |-> Len(table) + 1,
     clerk_user_id |-> userData.id,
     email |-> PrimaryEmail(userData),
     first_name |-> OrEmpty(userData.first_name),
     last_name |-> OrEmpty(userData.last_name),
     clerk_organization_id |-> OrEmpty(userData.organization_id)]

\* CLERK_WEBHOOK_SIGNING_SECRET is set, changed or removed.
SetSigningSecret(e) ==
    /\ e # signing
    /\ signing' = e
    /\ UNCHANGED <<env, rng, issued, last, failed, calls, logged, users, reqs>>

\* Request r arrives, signed by sender and carrying evt; lines 16-29: the
\* signing secret is read and, when it is there, verifyWebhook is called.
Deliver(r, sender, evt) ==
    /\ reqs[r].pc = "none"
    /\ \A q \in RequestIds : q < r => reqs[q].pc # "none"
    /\ LET req == Request("l18", sender, evt)
       IN  IF SigningSecretMissing(signing)
           THEN /\ reqs' = [reqs EXCEPT ![r] = Respond(req, 500, "Webhook configuration error")]
                /\ logged' = Append(logged,
                      LogLine("error",
                              "CLERK_WEBHOOK_SIGNING_SECRET environment variable is not set",
                              ""))
           ELSE /\ reqs' = [reqs EXCEPT ![r] = [req EXCEPT !.signingSecret = signing.value,
                                                           !.pc = "l29"]]
                /\ logged' = logged
    /\ UNCHANGED <<env, rng, issued, last, failed, calls, signing, users>>

\* Lines 29-76: verifyWebhook has settled; a verified user.created event
\* with a user id and an address goes on to prisma.users.findUnique.
Verified(r) ==
    /\ reqs[r].pc = "l29"
    /\ LET req == reqs[r]
           userData == req.evt.data
       IN  IF ~VerifyWebhook(req, req.signingSecret)
           THEN /\ reqs' = [reqs EXCEPT ![r] = Respond(req, 401, "Invalid webhook signature")]
                /\ logged' = Append(logged, LogLine("error", "Webhook verification failed:", ""))
           ELSE IF req.evt.type # "user.created"
           THEN /\ reqs' = [reqs EXCEPT ![r] = Respond(req, 200, "Webhook received")]
                /\ logged' = Append(logged,
                                    LogLine("log", "Received webhook event:", req.evt.type))
           ELSE IF Falsy(userData.id)
           THEN /\ reqs' = [reqs EXCEPT ![r] =
                              Respond(req, 400, "Invalid webhook payload: missing user ID")]
                /\ logged' = Append(logged,
                                    LogLine("error", "Missing user ID in webhook payload", ""))
           ELSE IF Falsy(PrimaryEmail(userData))
           THEN /\ reqs' = [reqs EXCEPT ![r] = Respond(req, 400, "User has no email address")]
                /\ logged' = Append(logged,
                                    LogLine("error", "No email found for user:", userData.id))
           ELSE /\ reqs' = [reqs EXCEPT ![r] = [req EXCEPT !.pc = "l74",
                                                           !.db = Append(@, "findUnique")]]
                /\ logged' = logged
    /\ UNCHANGED <<env, rng, issued, last, failed, calls, signing, users>>

\* Lines 74-90: the lookup is answered from the table as it is now; a row
\* found ends the request with 200, none goes on to prisma.users.create.
FindUnique(r) ==
    /\ reqs[r].pc = "l74"
    /\ LET req == reqs[r]
           existingUser == UsersFindUnique(users, req.evt.data.id)
       IN  IF existingUser # << >>
           THEN /\ reqs' = [reqs EXCEPT ![r] =
                              Respond([req EXCEPT !.existingUser = existingUser],
                                      200, "User already exists")]
                /\ logged' = Append(logged,
                                    LogLine("log", "User already exists:", req.evt.data.id))
           ELSE /\ reqs' = [reqs EXCEPT ![r] = [req EXCEPT !.pc = "l90",
                                                           !.db = Append(@, "create")]]
                /\ logged' = logged
    /\ UNCHANGED <<env, rng, issued, last, failed, calls, signing, users>>

\* Lines 90-111 and 123-131: the insert is carried out on the table as it
\* is now; the row is added and the request answered 201, or the insert is
\* rejected and the catch of line 123 answers 500 with the error's message.
Create(r) ==
    /\ reqs[r].pc = "l90"
    /\ LET req == reqs[r]
           userData == req.evt.data
       IN  IF UsersFindUnique(users, userData.id) # << >>
           THEN /\ users' = users
                /\ reqs' = [reqs EXCEPT ![r] = Respond(req, 500, UniqueConstraintError)]
                /\ logged' = Append(logged,
                                    LogLine("error", "Webhook processing error:",
                                            UniqueConstraintError))
           ELSE /\ users' = Append(users, NewUser(users, userData))
                /\ reqs' = [reqs EXCEPT ![r] = Respond(req, 201, "User created successfully")]
                /\ logged' = Append(logged,
                                    LogLine("log", "Created new user:", userData.id))
    /\ UNCHANGED <<env, rng, issued, last, failed, calls, signing>>

NextWebhook ==
    \/ \E e \in SigningValues : SetSigningSecret(e)
    \/ \E r \in RequestIds, sender \in Senders, evt \in Events : Deliver(r, sender, evt)
    \/ \E r \in RequestIds : Verified(r)
    \/ \E r \in RequestIds : FindUnique(r)
    \/ \E r \in RequestIds : Create(r)

\* The webhook endpoint with an empty users table; the cipher is not called.
InitWebhook ==
    /\ env = Unset
    /\ rng = 0
    /\ issued = << >>
    /\ last = Idle
    /\ failed = NoFailure
    /\ calls = [c \in CallIds |-> Free]
    /\ logged = << >>
    /\ signing \in SigningValues
    /\ users = << >>
    /\ reqs = [r \in RequestIds |-> NoRequest]

SpecWebhook == InitWebhook /\ [][NextWebhook]_vars

\* ------------------------------------------------------------ claims
\* A string without unpaired surrogates.
WellFormed(str) ==
    \A i \in 1 .. Len(str) :
        /\ IsHigh(str[i]) => (i < Len(str) /\ IsLow(str[i + 1]))
        /\ IsLow(str[i]) => (i > 1 /\ IsHigh(str[i - 1]))

\* The issued envelope a decrypt call was derived from.
Source(c) == issued[c.origin.idx]

\* decrypt was called on an envelope exactly as encrypt returned it, with
\* the secret present and the same as at the encrypt call.
RoundTrip(c) ==
    /\ c.op = "decrypt"
    /\ c.origin.kind = "intact"
    /\ ~SecretMissing(c.env)
    /\ c.env = Source(c).env

\* C1 as stated: for every plaintext P and every present secret unchanged
\* between the two calls, decrypt(encrypt(P)) returns exactly P.
C1_RoundTripAnyString ==
    RoundTrip(last) => (~last.out.threw /\ last.out.value = Source(last).plaintext)

\* C1 as amended: for every plaintext P without unpaired surrogates and
\* every present (set and non-empty) secret unchanged between the two
\* calls, decrypt(encrypt(P)) returns exactly P, whatever salt and nonce
\* encrypt drew.
C1_RoundTrip ==
    (RoundTrip(last) /\ WellFormed(Source(last).plaintext))
        => (~last.out.threw /\ last.out.value = Source(last).plaintext)

C1_Witness ==
    /\ RoundTrip(last)
    /\ Source(last).plaintext = <<97, 8364, 55357, 56832>>
    /\ Source(last).k > 0
    /\ last.out.value = <<97, 8364, 55357, 56832>>

\* One byte of the tag region (48..63) or of the ciphertext region (64..end)
\* of an issued envelope was changed before decrypt was called on it.
TagOrCiphertextTampered(c) ==
    /\ c.op = "decrypt"
    /\ c.origin.kind = "tamper"
    /\ c.origin.pos >= 48

\* C2: an envelope with one byte of its tag or ciphertext region changed is
\* never decrypted to a plaintext; with the secret present decrypt fails
\* with the authentication error of decipher.final().
C2_TamperDetected ==
    TagOrCiphertextTampered(last)
        => /\ last.out.threw
           /\ last.out.value = << >>
           /\ ~SecretMissing(last.env) => last.out.error = DecryptionError

C2_Witness ==
    /\ TagOrCiphertextTampered(last)
    /\ last.origin.pos >= 64
    /\ last.env = Source(last).env
    /\ last.out.error = DecryptionError

\* The primitives of node:crypto a call invoked.
CryptoWork(ops) == SelectSeq(ops, LAMBDA o : o \notin {"encrypt", "decrypt"})

\* The error C3 names for a too-short envelope; no statement of the code
\* throws it.
MalformedEnvelopeError == "MalformedEnvelopeError"

\* C3: decrypt of a string of fewer than 64 decoded bytes fails with
\* MalformedEnvelopeError before any cryptographic work is started (stated
\* for calls made with the secret present, where the length of the input
\* is the only thing wrong).
C3_MalformedRejectedFirst ==
    (last.op = "decrypt" /\ ~SecretMissing(last.env)
        /\ Len(Base64Decode(last.arg)) < 64)
        => /\ last.out.threw
           /\ last.out.error = MalformedEnvelopeError
           /\ CryptoWork(last.out.ops) = << >>

\* C4: an envelope made under secret A is not decrypted when the secret is
\* another one: decrypt throws and returns no plaintext.
C4_WrongSecretRejected ==
    (last.op = "decrypt" /\ last.origin.kind = "intact"
        /\ last.env # Source(last).env)
        => (last.out.threw /\ last.out.value = << >>)

C4_Witness ==
    /\ last.op = "decrypt"
    /\ last.origin.kind = "intact"
    /\ ~SecretMissing(last.env)
    /\ last.env # Source(last).env
    /\ last.out.error = DecryptionError

\* C5: two encrypt calls of the same plaintext under the same secret return
\* different envelopes, with different salts and different nonces.
C5_FreshEnvelopes ==
    \A i, j \in 1 .. Len(issued) :
        (i # j /\ issued[i].env = issued[j].env
            /\ issued[i].plaintext = issued[j].plaintext)
        => /\ issued[i].value # issued[j].value
           /\ ExtractSalt(IssuedBytes(i)) # ExtractSalt(IssuedBytes(j))
           /\ ExtractIv(IssuedBytes(i)) # ExtractIv(IssuedBytes(j))

C5_Witness ==
    /\ Len(issued) = 2
    /\ issued[1].env = issued[2].env
    /\ issued[1].plaintext = issued[2].plaintext
    /\ issued[1].value # issued[2].value

\* verifyEncryptionConfig was called with the secret present.
VerifyWithSecret(c) == c.op = "verify" /\ ~SecretMissing(c.env)

\* C6 as stated: with the secret present, whatever goes wrong in the round
\* trip of verifyEncryptionConfig, it fails with the self-test error.
C6_EscalatedAsSelfTestError ==
    (VerifyWithSecret(last) /\ last.out.threw) => last.out.error = SelfTestError

\* C6 as amended: with the secret present, an error thrown by encrypt or by
\* decrypt inside verifyEncryptionConfig leaves it unchanged, and the
\* self-test error is thrown only when both calls returned and the
\* decrypted value differs from the probe.
C6_ThrownErrorsPropagate ==
    VerifyWithSecret(last)
        => LET enc == Encrypt(last.env, last.arg, last.k, last.faults[1])
               dec == Decrypt(last.env, enc.value, last.faults[2])
           IN  /\ enc.threw => (last.out.threw /\ last.out.error = enc.error)
               /\ (~enc.threw /\ dec.threw)
                      => (last.out.threw /\ last.out.error = dec.error)
               /\ (~enc.threw /\ ~dec.threw /\ dec.value # last.arg)
                      => (last.out.threw /\ last.out.error = SelfTestError)
               /\ last.out.error = SelfTestError
                      => (~enc.threw /\ ~dec.threw /\ dec.value # last.arg)

C6_Witness ==
    /\ VerifyWithSecret(last)
    /\ last.faults = <<"none", "scryptSync">>
    /\ last.out.threw
    /\ last.out.error = CryptoError

\* C7: with the secret missing verifyEncryptionConfig throws the
\* configuration error before any random generation, key derivation,
\* encrypt or decrypt; with the secret present it completes without error
\* after exactly one encrypt followed by one decrypt.
C7_VerifyOrdering ==
    last.op = "verify"
        => /\ SecretMissing(last.env)
                => /\ last.out.threw
                   /\ last.out.error = ConfigurationError
                   /\ last.out.ops = << >>
           /\ ~SecretMissing(last.env)
                => /\ ~last.out.threw
                   /\ last.out.ops =
                        <<"encrypt", "randomBytes", "randomBytes", "scryptSync",
                          "createCipheriv", "cipher.update", "cipher.final",
                          "getAuthTag",
                          "decrypt", "scryptSync", "createDecipheriv",
                          "setAuthTag", "decipher.update", "decipher.final">>
                   /\ Len(last.out.body) = Len(last.arg)

C7_Witness ==
    /\ last.op = "verify"
    /\ ~SecretMissing(last.env)
    /\ ~last.out.threw
    /\ Len(last.out.ops) = 14

\* The outcome of the encrypt call that issued envelope i.
IssuedOutcome(i) == Encrypt(issued[i].env, issued[i].plaintext, issued[i].k, "none")

\* C8: the decoded output of encrypt is salt[32], nonce[16], tag[16] and
\* the ciphertext in that order, 64 bytes plus the ciphertext; decrypt
\* reads the four fields at offsets 0..31, 32..47, 48..63 and 64..end, and
\* what it reads from an envelope is what encrypt put in.
C8_EnvelopeLayout ==
    /\ (last.op = "encrypt" /\ ~last.out.threw)
        => LET bytes == Base64Decode(last.out.value)
           IN  /\ bytes = last.out.salt \o last.out.iv \o last.out.authTag
                          \o last.out.body
               /\ Len(last.out.salt) = 32
               /\ Len(last.out.iv) = 16
               /\ Len(last.out.authTag) = 16
               /\ Len(bytes) = 64 + Len(last.out.body)
               /\ Len(last.out.body) = Len(Utf8Encode(last.arg))
    /\ (last.op = "decrypt" /\ last.origin.kind = "intact")
        => LET bytes == Base64Decode(last.arg)
               enc == IssuedOutcome(last.origin.idx)
           IN  /\ last.out.salt = SubSeq(bytes, 1, 32)
               /\ last.out.iv = SubSeq(bytes, 33, 48)
               /\ last.out.authTag = SubSeq(bytes, 49, 64)
               /\ last.out.body = SubSeq(bytes, 65, Len(bytes))
               /\ last.out.salt = enc.salt
               /\ last.out.iv = enc.iv
               /\ last.out.authTag = enc.authTag
               /\ last.out.body = enc.body

C8_Witness ==
    /\ last.op = "decrypt"
    /\ last.origin.kind = "intact"
    /\ Len(last.out.body) = 8
    /\ last.out.body = IssuedOutcome(last.origin.idx).body
    /\ last.out.authTag # last.out.iv

\* C9: two decrypt calls on envelopes of at least 64 decoded bytes that fail
\* for different reasons (tag mismatch, another secret, corruption) report
\* the same error.
C9_NoOracle ==
    (AuthFailure(last) /\ failed # NoFailure) => last.out.error = failed.error

C9_Witness ==
    /\ AuthFailure(last)
    /\ failed.cause = "wrong secret"
    /\ Cause(last) = "corrupted"
    /\ last.out.error = failed.error

\* C10: with the secret missing, encrypt, decrypt and verifyEncryptionConfig
\* all throw the same configuration error and return nothing.
C10_MissingSecret ==
    (last.op \in {"encrypt", "decrypt", "verify"} /\ SecretMissing(last.env))
        => /\ last.out.threw
           /\ last.out.error = ConfigurationError
           /\ last.out.value = << >>

C10_Witness ==
    /\ last.op = "decrypt"
    /\ last.env = EnvOf(<< >>)
    /\ last.origin.kind = "truncate"
    /\ last.out.error = ConfigurationError

\* What a call that ran alone would have bound, from its own input and its
\* own two buffers of the random source: salt, nonce, key, ciphertext, tag.
Own(f) ==
    IF f.op = "encrypt"
    THEN LET salt == RandomBuffer(SALT_LENGTH, f.drew[1])
             iv == IF Len(f.drew) > 1 THEN RandomBuffer(IV_LENGTH, f.drew[2]) ELSE << >>
             key == ScryptSync(env.value, salt, KEY_LENGTH)
             body == GcmEncrypt(key, iv, Utf8Encode(f.plaintext))
         IN  [salt |-> salt, iv |-> iv, key |-> key, body |-> body,
              authTag |-> GcmTag(key, iv, body)]
    ELSE LET combined == Base64Decode(f.encryptedData)
             salt == ExtractSalt(combined)
         IN  [salt |-> salt, iv |-> ExtractIv(combined),
              key |-> ScryptSync(env.value, salt, KEY_LENGTH),
              body |-> ExtractCiphertext(combined),
              authTag |-> ExtractAuthTag(combined)]

\* The bindings of a call in progress hold what the call itself put there.
OwnBindings(f) ==
    f.pc \notin {"free", "done", "e145", "d175"}
        => LET own == Own(f)
           IN  /\ f.salt = own.salt
               /\ f.pc # "e146" => f.iv = own.iv
               /\ f.pc \in {"e152", "e159", "e162", "d190", "d191", "d193"}
                      => f.key = own.key
               /\ f.pc \in {"e159", "e162", "d187", "d190", "d191", "d193"}
                      => f.body = own.body
               /\ f.pc \in {"e162", "d187", "d190", "d191", "d193"}
                      => f.authTag = own.authTag

\* A finished call left what the same call leaves when it runs alone:
\* decrypt what Decrypt gives for its input; encrypt an envelope of its own
\* salt and nonce that decrypts to its plaintext, or the configuration error.
AsIfAlone(f) ==
    /\ f.op = "decrypt"
        => LET alone == Decrypt(env, f.encryptedData, "none")
           IN  /\ f.threw = alone.threw
               /\ f.error = alone.error
               /\ f.value = alone.value
               /\ f.ops = alone.ops
    /\ (f.op = "encrypt" /\ SecretMissing(env))
        => (f.threw /\ f.error = ConfigurationError /\ f.value = << >>)
    /\ (f.op = "encrypt" /\ ~SecretMissing(env))
        => LET own == Own(f)
               alone == Decrypt(env, f.value, "none")
           IN  /\ ~f.threw
               /\ f.value = Base64Encode(Combine(own.salt, own.iv, own.authTag,
                                                 own.body))
               /\ ~alone.threw
               /\ alone.value = Utf8Decode(Utf8Encode(f.plaintext))

\* C11: however the statements of encrypt and decrypt calls under one secret
\* interleave, every finished call left what it leaves when it runs alone,
\* the salt, nonce, key and buffers of a call in progress are those the call
\* itself drew, extracted or derived, and a call that has ended holds no key
\* (nor any other binding).
C11_CallIndependence ==
    \A c \in CallIds :
        /\ OwnBindings(calls[c])
        /\ calls[c].pc = "done" => AsIfAlone(calls[c])
        /\ calls[c].pc \in {"free", "done"}
            => /\ calls[c].key = << >>
               /\ calls[c].salt = << >>
               /\ calls[c].iv = << >>
               /\ calls[c].authTag = << >>
               /\ calls[c].body = << >>

\* Two encrypt calls have ended with different envelopes, a buffer of the
\* second drawn between the salt and the nonce of the first.
C11_Witness ==
    \E c, d \in CallIds :
        /\ c # d
        /\ calls[c].op = "encrypt" /\ calls[c].pc = "done" /\ ~calls[c].threw
        /\ calls[d].op = "encrypt" /\ calls[d].pc = "done" /\ ~calls[d].threw
        /\ calls[c].drew[2] > calls[c].drew[1] + 1
        /\ calls[c].value # calls[d].value

\* C12: when encrypt, decrypt or verifyEncryptionConfig has returned or
\* thrown, ENCRYPTION_KEY is what it was when the call started, and nothing
\* was written to the console, to the webhook's signing secret, to the users
\* table or to another call's bindings: the call left its result or its
\* error and nothing else.
C12_Frame ==
    last.op \in {"encrypt", "decrypt", "verify"}
        => /\ env = last.env
           /\ logged = << >>
           /\ signing = Unset
           /\ users = << >>
           /\ calls = [c \in CallIds |-> Free]
           /\ last.out.threw => last.out.value = << >>

\* A failed call and a successful one are both behind: the secret was
\* changed after an envelope was issued, and decrypt of that envelope threw.
C12_Witness ==
    /\ last.op = "decrypt"
    /\ last.origin.kind = "intact"
    /\ last.out.threw
    /\ ~SecretMissing(env)
    /\ env = last.env
    /\ Source(last).env # env

\* The functions entered and primitives invoked by one pass through encrypt
\* and through decrypt.
EncryptSteps ==
    <<"encrypt", "randomBytes", "randomBytes", "scryptSync", "createCipheriv",
      "cipher.update", "cipher.final", "getAuthTag">>
DecryptSteps ==
    <<"decrypt", "scryptSync", "createDecipheriv", "setAuthTag", "decipher.update",
      "decipher.final">>

IsPrefix(a, b) == Len(a) <= Len(b) /\ a = SubSeq(b, 1, Len(a))

\* How often a call has invoked one of the primitives of set.
Invocations(ops, set) == Len(SelectSeq(ops, LAMBDA o : o \in set))

\* The error of the statement at which a failed call stopped.
ErrorAt(f) ==
    IF SecretMissing(env) THEN ConfigurationError
    ELSE IF f.ops[Len(f.ops)] = "createDecipheriv" THEN InvalidIvError
    ELSE IF f.ops[Len(f.ops)] = "setAuthTag" THEN InvalidTagLengthError
    ELSE DecryptionError

\* C13: at every moment of every encrypt or decrypt call, what the call has
\* invoked is the beginning of a single pass through the function, so at
\* most one key derivation and one cipher or decipher creation; a call that
\* failed (missing secret, malformed input, tag mismatch) has ended, at the
\* statement that failed and with its error, and returns nothing; a call
\* that returned made exactly one pass.
C13_NoRetry ==
    \A c \in CallIds :
        LET f == calls[c]
            pass == IF f.op = "encrypt" THEN EncryptSteps ELSE DecryptSteps
        IN  f.op \in {"encrypt", "decrypt"}
            => /\ IsPrefix(f.ops, pass)
               /\ Invocations(f.ops, {"scryptSync"}) <= 1
               /\ Invocations(f.ops, {"createCipheriv", "createDecipheriv"}) <= 1
               /\ f.threw => /\ f.pc = "done"
                             /\ f.value = << >>
                             /\ f.error = ErrorAt(f)
                             /\ SecretMissing(env)
                                    => Invocations(f.ops, {"scryptSync"}) = 0
               /\ (f.pc = "done" /\ ~f.threw) => f.ops = pass

\* Two decrypt calls have failed, one at decipher.final() on a changed tag
\* after a whole pass, one at createDecipheriv on an empty input.
C13_Witness ==
    \E c, d \in CallIds :
        /\ calls[c].op = "decrypt" /\ calls[c].threw
        /\ calls[c].error = DecryptionError /\ calls[c].ops = DecryptSteps
        /\ calls[c].encryptedData = TamperedEnvelope(1)
        /\ calls[d].op = "decrypt" /\ calls[d].threw
        /\ calls[d].error = InvalidIvError
        /\ calls[d].ops = <<"decrypt", "scryptSync", "createDecipheriv">>

\* The Clerk user ids of the events.
ClerkUserIds == {"u1", "u2"}

\* The answered requests that reached the existence check for user id.
Deliveries(id) ==
    {r \in RequestIds : reqs[r].pc = "done" /\ reqs[r].db # << >>
                        /\ reqs[r].evt.data.id = id}

\* C14: whatever the interleaving of the verified user.created deliveries
\* for one Clerk user id, the users table holds at most one row with that
\* id, at most one delivery is answered 201 and it is the one whose create
\* inserted the row, and every other delivery is answered 200 'User already
\* exists'.
C14_Idempotent ==
    \A id \in ClerkUserIds :
        /\ Len(UsersFindUnique(users, id)) <= 1
        /\ Cardinality({r \in Deliveries(id) : reqs[r].status = 201}) <= 1
        /\ \A r \in Deliveries(id) :
               \/ reqs[r].status = 201 /\ UsersFindUnique(users, id) # << >>
               \/ reqs[r].status = 200 /\ reqs[r].message = "User already exists"

\* The handler of request r read a signing secret and verifyWebhook accepted
\* the request under it.
Authenticated(req) ==
    /\ req.signingSecret # << >>
    /\ req.signedWith = req.signingSecret

\* C15: a request sends a query to the users table only after the signing
\* secret was found set and the request verified under it; a request that
\* found the secret missing is answered 500 'Webhook configuration error',
\* one that failed verification 401, neither with a query sent; and every
\* row of the table was inserted by a verified request answered 201.
C15_VerifiedBeforeStorage ==
    /\ \A r \in RequestIds :
           LET req == reqs[r]
           IN  /\ req.db # << >> => Authenticated(req)
               /\ (req.pc # "none" /\ req.signingSecret = << >>)
                      => /\ req.pc = "done"
                         /\ req.status = 500
                         /\ req.message = "Webhook configuration error"
                         /\ req.db = << >>
               /\ (req.pc = "done" /\ req.signingSecret # << >>
                       /\ req.signedWith # req.signingSecret)
                      => /\ req.status = 401
                         /\ req.message = "Invalid webhook signature"
                         /\ req.db = << >>
    /\ \A i \in 1 .. Len(users) :
           \E r \in RequestIds :
               /\ Authenticated(reqs[r])
               /\ reqs[r].status = 201
               /\ reqs[r].evt.data.id = users[i].clerk_user_id
    /\ Len(users) = Cardinality({r \in RequestIds : reqs[r].status = 201})

\* One request was answered 500 for the missing secret and, the secret set
\* since, a request not signed with it 401; the table is empty.
C15_Witness ==
    \E r, q \in RequestIds :
        /\ reqs[r].status = 500
        /\ reqs[r].message = "Webhook configuration error"
        /\ reqs[q].status = 401
        /\ reqs[q].signingSecret = ClerkSecret
        /\ reqs[q].evt.type = "user.created"
        /\ users = << >>

====
